---- MODULE Spec2Model ----
(***************************************************************************)
(* State-machine model of the news backend: the request handlers of        *)
(* routers/news.py and routers/user.py, the storage operations of          *)
(* crud/news.py and crud/users.py, and the per-request session of          *)
(* config/db_conf.py.  Every request runs in its own session; the awaits   *)
(* on the storage are the only points where requests interleave.           *)
(***************************************************************************)
EXTENDS Integers, Sequences, FiniteSets, TLC

\* ----------------------------------------------------------------- bounds
MaxNews == 2
MaxCats == 2
MaxDetailReqs == 2
MaxListReqs == 1
MaxUserReqs == 2
MaxCatReqs == 1
MaxPage == 2
MaxPageSize == 1
MaxViews == 1
MaxTime == 2
MaxLimit == 2

\* ------------------------------------------------------ program constants
PageSizeMax == 100
RelatedLimit == 5
TokenDays == 7
CategoriesLimitDefault == 100

NewsIds == 1..MaxNews
Cats == 1..MaxCats
DetailReqs == 1..MaxDetailReqs
ListReqs == 1..MaxListReqs
UserReqs == 1..MaxUserReqs
CatReqs == 1..MaxCatReqs
Reqs == DetailReqs \cup ListReqs \cup UserReqs \cup CatReqs
Usernames == {"ann", "bob"}
None == [none |-> TRUE]

VARIABLES
    news,        \* table news: id -> [category_id, views, publish_time]
    users,       \* table user: set of [id, username]
    tokens,      \* table user_token: set of [id, user_id, token, expires_at]
    nextUserId,  \* auto-increment counter of user.id
    nextTokenId, \* auto-increment counter of user_token.id
    nextUuid,    \* number of uuid4() values drawn so far
    now,         \* datetime.now()
    pc,          \* each request's position in its handler
    sess,        \* each request's session: none, open, committed, rolledback
    dirtyNews,   \* news rows a session has updated and not yet committed
    dirtyTok,    \* user_token rows a session has modified and not yet flushed
    resp,        \* HTTP status each request answers with (0: none yet)
    detail,      \* locals of get_news_detail
    lst,         \* locals of get_news_list
    reg,         \* locals of register / create_token
    rel,         \* arguments and results of direct get_related_news calls
    cat,         \* locals of get_categories
    closed       \* whether each request's session has been closed

vars == <<news, users, tokens, nextUserId, nextTokenId, nextUuid, now, pc, sess,
          dirtyNews, dirtyTok, resp, detail, lst, reg, rel, cat, closed>>

storage == <<news, users, tokens, nextUserId, nextTokenId>>

\* ------------------------------------------------------- crud/news.py

\* select(News).where(News.id == news_id) ... scalar_one_or_none()
get_news_detail(n, news_id) ==
    IF news_id \in DOMAIN n THEN [id |-> news_id,
                                  category_id |-> n[news_id].category_id,
                                  views |-> n[news_id].views,
                                  publish_time |-> n[news_id].publish_time]
    ELSE None

\* values(views=News.views + 1): the new value is computed by the storage
\* from the row's current value (cur), not from the caller's snapshot (snap).
IncreasedViewsFromSnapshot(cur, snap) == snap + 1
IncreasedViewsSignSlip(cur, snap) == cur - 1
IncreasedViews(cur, snap) == cur + 1

\* result.rowcount of update(News).where(News.id == news_id)
UpdateRowcountAssumed(n, news_id) == 1
UpdateRowcount(n, news_id) == IF news_id \in DOMAIN n THEN 1 ELSE 0

\* the row lock an executed, uncommitted UPDATE holds
Locked(id) == \E r \in Reqs : id \in dirtyNews[r]

\* ORDER BY views DESC, publish_time DESC: a ranks strictly before b
RanksBeforeAscending(a, b) ==
    \/ a.views < b.views
    \/ a.views = b.views /\ a.publish_time < b.publish_time
RanksBefore(a, b) ==
    \/ a.views > b.views
    \/ a.views = b.views /\ a.publish_time > b.publish_time

\* where(News.id != news_id, News.category_id == category_id)
RelatedMatches(n, news_id, category_id) ==
    {i \in DOMAIN n : i # news_id /\ n[i].category_id = category_id}

\* the orders in which the storage may return the rows of M: every
\* enumeration of M, respecting the ORDER BY when the statement has one
\* (ranked); rows the ORDER BY does not separate, and all rows of a statement
\* without one, come in an order the storage chooses.
Orderings(n, M, ranked) ==
    {s \in [1..Cardinality(M) -> M] :
        /\ \A i, j \in 1..Cardinality(M) : i # j => s[i] # s[j]
        /\ \A i, j \in 1..Cardinality(M) :
              (ranked /\ i < j) => ~RanksBefore(n[s[j]], n[s[i]])}

\* OFFSET skip LIMIT limit over a result sequence
Window(s, skip, limit) ==
    [k \in 1..(IF Len(s) - skip < limit THEN
                  (IF Len(s) - skip < 0 THEN 0 ELSE Len(s) - skip)
               ELSE limit) |-> s[skip + k]]

\* the projection get_related_news returns for each row
Summary(n, i) == [id |-> i, categoryId |-> n[i].category_id,
                  views |-> n[i].views, publishTime |-> n[i].publish_time]

\* every result get_related_news(db, news_id, category_id, limit) can return
get_related_news(n, news_id, category_id, limit) ==
    {[k \in DOMAIN Window(s, 0, limit) |-> Summary(n, s[k])] :
        s \in Orderings(n, RelatedMatches(n, news_id, category_id), TRUE)}

\* update(News)...values(views=News.views + 1) applied to the rows in d
ApplyViews(n, d, snap) ==
    [i \in DOMAIN n |-> IF i \in d
                        THEN [n[i] EXCEPT !.views = IncreasedViews(@, snap)]
                        ELSE n[i]]

\* increase_news_views ends with `await db.commit()`: the session's pending
\* update becomes the stored value and the session holds nothing more.
increase_without_commit(n, d, snap) == [news |-> n, dirty |-> d]
increase_commit(n, d, snap) == [news |-> ApplyViews(n, d, snap), dirty |-> {}]

\* ------------------------------------------------------------ initial state

NoDetail == [news_id |-> 0, news_detail |-> None, rowcount |-> 0,
             news_view_res |-> FALSE, fetched |-> FALSE, related_news |-> <<>>]
NoList == [category_id |-> 0, page |-> 0, page_size |-> 0, offset |-> 0,
           limit |-> 0, queried |-> FALSE, snap |-> <<>>, new_list |-> <<>>,
           total |-> 0, has_more |-> FALSE]
NoReg == [kind |-> "none", username |-> "", existing_user |-> None, user_id |-> 0,
          created |-> FALSE, token |-> 0, expires_at |-> 0, row |-> None]
NoCat == [skip |-> 0, limit |-> 0, queried |-> FALSE, categories |-> <<>>]
NoRel == [called |-> FALSE, news_id |-> 0, category_id |-> 0, limit |-> 0,
          result |-> <<>>, repeated |-> FALSE, again |-> <<>>]

InitRequests ==
    /\ pc = [r \in Reqs |-> "idle"]
    /\ sess = [r \in Reqs |-> "none"]
    /\ dirtyNews = [r \in Reqs |-> {}]
    /\ dirtyTok = [r \in Reqs |-> {}]
    /\ resp = [r \in Reqs |-> 0]
    /\ detail = [r \in Reqs |-> NoDetail]
    /\ lst = [r \in Reqs |-> NoList]
    /\ reg = [r \in Reqs |-> NoReg]
    /\ rel = NoRel
    /\ cat = [r \in Reqs |-> NoCat]
    /\ closed = [r \in Reqs |-> FALSE]

InitUsers ==
    /\ users = {}
    /\ tokens = {}
    /\ nextUserId = 1
    /\ nextTokenId = 1
    /\ nextUuid = 0
    /\ now = 0

\* the articles the content ingestion has stored: views default to 0
SeedNews ==
    [i \in NewsIds |-> [category_id |-> 1 + (((i - 1) \div 2) % MaxCats),
                        views |-> 0,
                        publish_time |-> (i + 1) \div 2]]

Init ==
    /\ news = SeedNews
    /\ InitUsers
    /\ InitRequests

\* ------------------------------------------------- config/db_conf.py get_db

\* after the yield: commit when the handler returned, rollback when it raised,
\* close in both cases.  A commit flushes the session's pending changes; a
\* rollback discards them.
FlushTokens(t, d) ==
    {IF \E w \in d : w.id = row.id
     THEN [row EXCEPT !.token = (CHOOSE w \in d : w.id = row.id).token,
                      !.expires_at = (CHOOSE w \in d : w.id = row.id).expires_at]
     ELSE row : row \in t}

\* session.rollback() undoes what the session has not committed: the user
\* row create_user committed stays, and nothing else removes it
rollback_users_undoing_create(u, user_id) == {x \in u : x.id # user_id}
rollback_users(u, user_id) == u

\* finally: await session.close() runs after the commit and after the rollback
closed_on_success_only(exit) == exit = "exit_ok"
closed_finally(exit) == TRUE

GetDbExit(r) ==
    /\ pc[r] \in {"exit_ok", "exit_err"}
    /\ IF pc[r] = "exit_ok"
       THEN /\ news' = ApplyViews(news, dirtyNews[r], detail[r].news_detail.views)
            /\ tokens' = FlushTokens(tokens, dirtyTok[r])
            /\ sess' = [sess EXCEPT ![r] = "committed"]
       ELSE /\ UNCHANGED <<news, tokens>>
            /\ sess' = [sess EXCEPT ![r] = "rolledback"]
    /\ dirtyNews' = [dirtyNews EXCEPT ![r] = {}]
    /\ dirtyTok' = [dirtyTok EXCEPT ![r] = {}]
    /\ users' = IF pc[r] = "exit_ok" THEN users
                ELSE rollback_users(users, reg[r].user_id)
    /\ closed' = [closed EXCEPT ![r] = closed_finally(pc[r])]
    /\ pc' = [pc EXCEPT ![r] = "done"]
    /\ UNCHANGED <<nextUserId, nextTokenId, nextUuid, now, resp, detail,
                   lst, reg, rel, cat>>

\* ------------------------------------------ routers/news.py get_news_detail

StartDetail(r, id) ==
    /\ r \in DetailReqs
    /\ pc[r] = "idle"
    /\ pc' = [pc EXCEPT ![r] = "d_lookup"]
    /\ sess' = [sess EXCEPT ![r] = "open"]
    /\ detail' = [detail EXCEPT ![r].news_id = id]
    /\ UNCHANGED <<news, users, tokens, nextUserId, nextTokenId, nextUuid, now,
                   dirtyNews, dirtyTok, resp, lst, reg, rel, cat,
                   closed>>

\* news_detail = await news.get_news_detail(db, news_id); 404 when absent
DetailLookup(r) ==
    /\ pc[r] = "d_lookup"
    /\ LET nd == get_news_detail(news, detail[r].news_id) IN
        /\ detail' = [detail EXCEPT ![r].news_detail = nd]
        /\ IF nd = None
           THEN /\ resp' = [resp EXCEPT ![r] = 404]
                /\ pc' = [pc EXCEPT ![r] = "exit_err"]
           ELSE /\ resp' = resp
                /\ pc' = [pc EXCEPT ![r] = "d_update"]
    /\ UNCHANGED <<news, users, tokens, nextUserId, nextTokenId, nextUuid, now,
                   sess, dirtyNews, dirtyTok, lst, reg, rel, cat,
                   closed>>

\* increase_news_views: result = await db.execute(stmt).  The UPDATE waits
\* for the row lock, then holds it until the session commits.
DetailUpdate(r) ==
    /\ pc[r] = "d_update"
    /\ ~Locked(detail[r].news_detail.id)
    /\ LET n == UpdateRowcount(news, detail[r].news_detail.id) IN
        /\ detail' = [detail EXCEPT ![r].rowcount = n]
        /\ dirtyNews' = [dirtyNews EXCEPT
               ![r] = IF n > 0 THEN {detail[r].news_detail.id} ELSE {}]
    /\ pc' = [pc EXCEPT ![r] = "d_commit"]
    /\ UNCHANGED <<news, users, tokens, nextUserId, nextTokenId, nextUuid, now,
                   sess, dirtyTok, resp, lst, reg, rel, cat,
                   closed>>

\* increase_news_views: await db.commit(); return result.rowcount > 0;
\* the handler raises 404 on a false result
DetailCommit(r) ==
    /\ pc[r] = "d_commit"
    /\ LET c == increase_commit(news, dirtyNews[r], detail[r].news_detail.views) IN
        /\ news' = c.news
        /\ dirtyNews' = [dirtyNews EXCEPT ![r] = c.dirty]
    /\ detail' = [detail EXCEPT ![r].news_view_res = detail[r].rowcount > 0]
    /\ IF detail[r].rowcount > 0
       THEN /\ resp' = resp
            /\ pc' = [pc EXCEPT ![r] = "d_related"]
       ELSE /\ resp' = [resp EXCEPT ![r] = 404]
            /\ pc' = [pc EXCEPT ![r] = "exit_err"]
    /\ UNCHANGED <<users, tokens, nextUserId, nextTokenId, nextUuid, now, sess,
                   dirtyTok, lst, reg, rel, cat,
                   closed>>

\* related_news = await news.get_related_news(db, id, category_id); return
DetailRelated(r) ==
    /\ pc[r] = "d_related"
    /\ \E s \in get_related_news(news, detail[r].news_detail.id,
                                 detail[r].news_detail.category_id, RelatedLimit) :
        detail' = [detail EXCEPT ![r].related_news = s, ![r].fetched = TRUE]
    /\ resp' = [resp EXCEPT ![r] = 200]
    /\ pc' = [pc EXCEPT ![r] = "exit_ok"]
    /\ UNCHANGED <<news, users, tokens, nextUserId, nextTokenId, nextUuid, now,
                   sess, dirtyNews, dirtyTok, lst, reg, rel, cat,
                   closed>>

\* the related-news query fails, or the request is cancelled while it waits:
\* the exception reaches get_db
DetailRelatedFails(r) ==
    /\ pc[r] = "d_related"
    /\ resp' = [resp EXCEPT ![r] = 500]
    /\ pc' = [pc EXCEPT ![r] = "exit_err"]
    /\ UNCHANGED <<news, users, tokens, nextUserId, nextTokenId, nextUuid, now,
                   sess, dirtyNews, dirtyTok, detail, lst, reg, rel, cat,
                   closed>>

\* an article is removed by an administrator while requests are running
\* (the case the handler's second 404 guards against)
AdminDelete(id) ==
    /\ id \in DOMAIN news
    /\ ~Locked(id)
    /\ news' = [i \in DOMAIN news \ {id} |-> news[i]]
    /\ UNCHANGED <<users, tokens, nextUserId, nextTokenId, nextUuid, now, pc,
                   sess, dirtyNews, dirtyTok, resp, detail, lst, reg, rel, cat,
                   closed>>

NextNews ==
    \/ \E r \in DetailReqs, id \in NewsIds : StartDetail(r, id)
    \/ \E r \in DetailReqs : DetailLookup(r)
    \/ \E r \in DetailReqs : DetailUpdate(r)
    \/ \E r \in DetailReqs : DetailCommit(r)
    \/ \E r \in DetailReqs : DetailRelated(r)
    \/ \E r \in DetailReqs : DetailRelatedFails(r)
    \/ \E r \in DetailReqs : GetDbExit(r)
    \/ \E id \in NewsIds : AdminDelete(id)

SpecNews == Init /\ [][NextNews]_vars

\* ------------------------------------------------------------ claims: news

\* the requests whose increase_news_views call on article a has returned True
Counted(a) == {r \in DetailReqs : detail[r].news_view_res /\ detail[r].news_id = a}

\* the requests whose increase_news_views call has returned
IncreaseReturned(r) ==
    /\ detail[r].news_detail # None
    /\ pc[r] \in {"d_related", "exit_ok", "exit_err", "done"}

\* C1: concurrent increments of one article are all observed. With views
\* starting at 0, an article's views equals the number of increase_news_views
\* calls on it that have returned, under every interleaving, and every such
\* call on an existing article returned True.
C1_NoLostIncrement ==
    /\ \A a \in DOMAIN news : news[a].views = Cardinality(Counted(a))
    /\ \A r \in DetailReqs :
          (IncreaseReturned(r) /\ detail[r].news_id \in DOMAIN news)
              => detail[r].news_view_res

\* every request has incremented the same article, each having looked it up
\* before any increment was committed
C1_Witness ==
    \E a \in DOMAIN news :
        /\ \A r \in DetailReqs :
              /\ pc[r] = "done"
              /\ detail[r].news_id = a
              /\ detail[r].news_view_res
              /\ detail[r].news_detail.views = 0
        /\ news[a].views = MaxDetailReqs
        /\ MaxDetailReqs > 1

\* C5: get_news_detail answers 404 when the article is absent at lookup, and
\* when it is found but the increment matches no row; the increment reports
\* True iff a row matched; a 404 changes no views and fetches no related news.
C5_NotFoundStep(r) ==
    /\ (pc[r] = "d_lookup" /\ pc'[r] # "d_lookup" /\ detail[r].news_id \notin DOMAIN news)
          => resp'[r] = 404
    /\ (pc[r] = "d_update" /\ pc'[r] # "d_update")
          => (detail'[r].rowcount = 1 <=> detail[r].news_id \in DOMAIN news)
    /\ (pc[r] = "d_commit" /\ pc'[r] # "d_commit")
          => /\ detail'[r].news_view_res <=> detail[r].rowcount = 1
             /\ detail[r].rowcount = 0 => resp'[r] = 404
    /\ (pc'[r] # pc[r] /\ resp'[r] = 404)
          => /\ news' = news
             /\ ~detail'[r].fetched
             /\ detail'[r].related_news = <<>>

C5_NotFound == [][\A r \in DetailReqs : C5_NotFoundStep(r)]_vars

\* a request found its article, the article vanished before the increment,
\* and the request ended 404
C5_Witness ==
    \E r \in DetailReqs :
        /\ pc[r] = "done"
        /\ resp[r] = 404
        /\ detail[r].news_detail # None
        /\ detail[r].rowcount = 0

\* C6: once increase_news_views has returned True, the +1 is stored: a
\* request that then fails in the related-news fetch and is rolled back
\* leaves the article's views above the value it looked up, and every such
\* failed request stays counted in the article's views.
C6_IncrementSurvivesFailure ==
    /\ \A r \in DetailReqs :
          (detail[r].news_view_res /\ resp[r] = 500 /\ detail[r].news_id \in DOMAIN news)
              => news[detail[r].news_id].views >= detail[r].news_detail.views + 1
    /\ \A a \in DOMAIN news :
          news[a].views >= Cardinality({r \in Counted(a) : resp[r] = 500})

\* a request incremented, failed in the related-news fetch, was rolled back
C6_Witness ==
    \E r \in DetailReqs :
        /\ pc[r] = "done"
        /\ sess[r] = "rolledback"
        /\ resp[r] = 500
        /\ detail[r].news_view_res
        /\ detail[r].news_id \in DOMAIN news
        /\ news[detail[r].news_id].views = detail[r].news_detail.views + 1

\* -------------------------------------------- routers/news.py get_news_list

\* the values a caller may send for page and pageSize
PageInputs == 0..MaxPage
PageSizeInputs == ((0 - 1)..MaxPageSize) \cup {PageSizeMax, PageSizeMax + 1}

\* page_size: int = Query(10, alias="pageSize", le=100): the request
\* validation accepts a pageSize iff it is at most 100 (page has no bound)
page_size_unchecked(page_size) == TRUE
page_size_valid(page_size) == page_size <= PageSizeMax

\* offset = (page - 1) * page_size
offset_from_page_zero(page, page_size) == page * page_size
offset_of(page, page_size) == (page - 1) * page_size

\* where(News.category_id == category_id)
CategoryRows(n, category_id) == {i \in DOMAIN n : n[i].category_id = category_id}

\* select(func.count(News.id)).where(News.category_id == category_id)
get_news_count(n, category_id) == Cardinality(CategoryRows(n, category_id))

\* every result get_news_list(db, category_id, skip, limit) can return (the
\* select has no ORDER BY)
get_news_list(n, category_id, skip, limit) ==
    {Window(s, skip, limit) : s \in Orderings(n, CategoryRows(n, category_id), FALSE)}

\* has_more = (offset + len(new_list)) < total
has_more_of(offset, returned, total) == (offset + returned) < total

\* the request arrives: its parameters are validated (422 on failure), its
\* session is opened and the handler computes the offset
StartList(r, category_id, page, page_size) ==
    /\ r \in ListReqs
    /\ pc[r] = "idle"
    /\ sess' = [sess EXCEPT ![r] = "open"]
    /\ IF page_size_valid(page_size)
       THEN /\ lst' = [lst EXCEPT ![r].category_id = category_id,
                                  ![r].page = page,
                                  ![r].page_size = page_size,
                                  ![r].offset = offset_of(page, page_size),
                                  ![r].limit = page_size]
            /\ pc' = [pc EXCEPT ![r] = "l_list"]
            /\ resp' = resp
       ELSE /\ lst' = [lst EXCEPT ![r].category_id = category_id,
                                  ![r].page = page,
                                  ![r].page_size = page_size]
            /\ pc' = [pc EXCEPT ![r] = "exit_err"]
            /\ resp' = [resp EXCEPT ![r] = 422]
    /\ UNCHANGED <<news, users, tokens, nextUserId, nextTokenId, nextUuid, now,
                   dirtyNews, dirtyTok, detail, reg, rel, cat,
                   closed>>

\* new_list = await news.get_news_list(db, category_id, offset, page_size).
\* The statement is the first of the session's transaction, whose later
\* reads see the same snapshot (snap: the rows of the category in it).  The
\* storage refuses a negative OFFSET or LIMIT with an error, which reaches
\* get_db.
ListFetch(r) ==
    /\ pc[r] = "l_list"
    /\ IF lst[r].offset < 0 \/ lst[r].limit < 0
       THEN /\ lst' = [lst EXCEPT ![r].queried = TRUE]
            /\ resp' = [resp EXCEPT ![r] = 500]
            /\ pc' = [pc EXCEPT ![r] = "exit_err"]
       ELSE /\ \E s \in get_news_list(news, lst[r].category_id, lst[r].offset,
                                      lst[r].limit) :
                  lst' = [lst EXCEPT ![r].queried = TRUE,
                                     ![r].snap = [i \in CategoryRows(news, lst[r].category_id)
                                                     |-> news[i]],
                                     ![r].new_list = s]
            /\ resp' = resp
            /\ pc' = [pc EXCEPT ![r] = "l_count"]
    /\ UNCHANGED <<news, users, tokens, nextUserId, nextTokenId, nextUuid, now,
                   sess, dirtyNews, dirtyTok, detail, reg, rel, cat,
                   closed>>

\* total = await news.get_news_count(db, category_id); has_more; return
ListCount(r) ==
    /\ pc[r] = "l_count"
    /\ LET total == get_news_count(lst[r].snap, lst[r].category_id) IN
        lst' = [lst EXCEPT
            ![r].total = total,
            ![r].has_more = has_more_of(lst[r].offset, Len(lst[r].new_list), total)]
    /\ resp' = [resp EXCEPT ![r] = 200]
    /\ pc' = [pc EXCEPT ![r] = "exit_ok"]
    /\ UNCHANGED <<news, users, tokens, nextUserId, nextTokenId, nextUuid, now,
                   sess, dirtyNews, dirtyTok, detail, reg, rel, cat,
                   closed>>

NextList ==
    \/ \E r \in ListReqs, c \in Cats, p \in PageInputs, ps \in PageSizeInputs :
          StartList(r, c, p, ps)
    \/ \E r \in ListReqs : ListFetch(r)
    \/ \E r \in ListReqs : ListCount(r)
    \/ \E r \in ListReqs : GetDbExit(r)
    \/ \E id \in NewsIds : AdminDelete(id)

SpecList == Init /\ [][NextList]_vars

\* ------------------------------------------------------------ claims: list

\* C7: for page >= 1 and pageSize in [1,100] the list is queried with
\* offset (page-1)*pageSize and limit pageSize, total is the number of rows
\* of the category whatever the window, hasMore is (offset + returned) <
\* total, and so hasMore holds exactly when offset + pageSize < total.
C7_Pagination ==
    \A r \in ListReqs :
        (lst[r].page >= 1 /\ lst[r].page_size \in 1..PageSizeMax /\ resp[r] = 200)
        => /\ lst[r].offset = (lst[r].page - 1) * lst[r].page_size
           /\ lst[r].limit = lst[r].page_size
           /\ lst[r].total =
                 Cardinality({i \in DOMAIN lst[r].snap :
                                 lst[r].snap[i].category_id = lst[r].category_id})
           /\ \A k \in DOMAIN lst[r].new_list :
                 lst[r].snap[lst[r].new_list[k]].category_id = lst[r].category_id
           /\ lst[r].has_more <=> (lst[r].offset + Len(lst[r].new_list)) < lst[r].total
           /\ lst[r].has_more <=> (lst[r].offset + lst[r].page_size) < lst[r].total
           /\ lst[r].offset >= lst[r].total => ~lst[r].has_more

\* a page that is cut by the end of the data, and answered without hasMore
C7_Witness ==
    \E r \in ListReqs :
        /\ resp[r] = 200
        /\ lst[r].page >= 2
        /\ lst[r].page_size \in 1..PageSizeMax
        /\ lst[r].total > lst[r].offset
        /\ Len(lst[r].new_list) >= 1
        /\ ~lst[r].has_more

\* C8 as stated: a request with pageSize above 100 is answered as the same
\* request with pageSize 100 would be.
C8_Original ==
    \A r \in ListReqs :
        (lst[r].page_size > PageSizeMax /\ pc[r] = "done")
            => (resp[r] = 200 /\ lst[r].limit = PageSizeMax)

\* C8 amended: a request with pageSize above 100 is rejected by the request
\* validation (422) and the storage is never queried for it.
C8_Rejected ==
    \A r \in ListReqs :
        (lst[r].page_size > PageSizeMax /\ pc[r] # "idle")
            => /\ resp[r] = 422
               /\ ~lst[r].queried
               /\ pc[r] \in {"exit_err", "done"}

C8_Witness ==
    \E r \in ListReqs :
        /\ lst[r].page_size = PageSizeMax + 1
        /\ pc[r] = "done"
        /\ resp[r] = 422

\* C9: no query reaches the storage with a negative offset or a limit
\* below 1: a page below 1 counts as page 1 and a pageSize below 1 is
\* rejected before the storage is queried.
C9_SafeWindow ==
    \A r \in ListReqs :
        /\ lst[r].queried => (lst[r].offset >= 0 /\ lst[r].limit >= 1)
        /\ (pc[r] = "done" /\ lst[r].page_size < 1)
              => (~lst[r].queried /\ resp[r] \in {400, 422})

\* ------------------------------------- crud/news.py get_related_news, direct

\* stored articles with any view counts and publish times
InitRelated ==
    /\ \E v \in [NewsIds -> 0..MaxViews], t \in [NewsIds -> 1..MaxTime] :
          news = [i \in NewsIds |-> [category_id |-> SeedNews[i].category_id,
                                     views |-> v[i],
                                     publish_time |-> t[i]]]
    /\ InitUsers
    /\ InitRequests

LimitInputs == (0..MaxLimit) \cup {RelatedLimit}

\* one call get_related_news(db, news_id, category_id, limit)
RelatedCall(news_id, category_id, limit) ==
    /\ ~rel.called
    /\ \E s \in get_related_news(news, news_id, category_id, limit) :
          rel' = [NoRel EXCEPT !.called = TRUE, !.news_id = news_id,
                               !.category_id = category_id, !.limit = limit,
                               !.result = s]
    /\ UNCHANGED <<news, users, tokens, nextUserId, nextTokenId, nextUuid, now, pc,
                   sess, dirtyNews, dirtyTok, resp, detail, lst, reg, cat,
                   closed>>

\* the same call again, with the stored data unchanged in between
RelatedRepeat ==
    /\ rel.called
    /\ ~rel.repeated
    /\ \E s \in get_related_news(news, rel.news_id, rel.category_id, rel.limit) :
          rel' = [rel EXCEPT !.repeated = TRUE, !.again = s]
    /\ UNCHANGED <<news, users, tokens, nextUserId, nextTokenId, nextUuid, now, pc,
                   sess, dirtyNews, dirtyTok, resp, detail, lst, reg, cat, closed>>

NextRelated ==
    \/ \E id \in 0..MaxNews, c \in Cats, l \in LimitInputs : RelatedCall(id, c, l)
    \/ RelatedRepeat

SpecRelated == InitRelated /\ [][NextRelated]_vars

\* --------------------------------------------------------- claims: related

\* the stored articles a call's selection predicate matches
C10_Matching ==
    {i \in DOMAIN news : i # rel.news_id /\ news[i].category_id = rel.category_id}

\* C10: get_related_news returns at most limit items, each a stored article
\* of the given category other than the excluded one, none twice, in order of
\* views descending then publish time descending; no omitted match outranks
\* a returned one; with fewer than limit matches all are returned, and with
\* no match the result is empty.
C10_RelatedRanking ==
    rel.called =>
        LET res == rel.result
            ids == {res[k].id : k \in DOMAIN res}
        IN  /\ Len(res) <= rel.limit
            /\ \A k \in DOMAIN res :
                  /\ res[k].id \in C10_Matching
                  /\ res[k].categoryId = rel.category_id
                  /\ res[k].id # rel.news_id
                  /\ res[k].views = news[res[k].id].views
                  /\ res[k].publishTime = news[res[k].id].publish_time
            /\ \A j, k \in DOMAIN res : j < k =>
                  /\ res[j].id # res[k].id
                  /\ \/ res[j].views > res[k].views
                     \/ /\ res[j].views = res[k].views
                        /\ res[j].publishTime >= res[k].publishTime
            /\ \A i \in C10_Matching \ ids : \A k \in DOMAIN res :
                  ~ \/ news[i].views > res[k].views
                    \/ /\ news[i].views = res[k].views
                       /\ news[i].publish_time > res[k].publishTime
            /\ Cardinality(C10_Matching) <= rel.limit => ids = C10_Matching
            /\ Cardinality(C10_Matching) > rel.limit => Len(res) = rel.limit
            /\ C10_Matching = {} => res = <<>>

\* the limit cuts the matches, and the returned article outranks an omitted one
C10_Witness ==
    /\ rel.called
    /\ rel.limit >= 1
    /\ Len(rel.result) = rel.limit
    /\ \E i \in C10_Matching :
          /\ \A k \in DOMAIN rel.result : rel.result[k].id # i
          /\ news[i].views < rel.result[1].views

\* C11: the related-news order is determined by the stored data: two calls
\* with the same arguments against the same data return the same sequence,
\* also when articles tie on views and publish time and the limit cuts them.
C11_StableOrder == rel.repeated => rel.again = rel.result

\* ------------------------------------------------------- crud/users.py

\* select(User).where(User.username == username) ... scalar_one_or_none()
get_user_by_username(u, username) ==
    IF \E x \in u : x.username = username
    THEN CHOOSE x \in u : x.username = username
    ELSE None

\* the storage's unique index on user.username: an INSERT of a username that
\* a stored row already has is refused
UsernameFree(u, username) == \A x \in u : x.username # username

\* select(UserToken).where(UserToken.id == user_id) ... scalar_one_or_none()
find_user_token(t, user_id) ==
    IF \E x \in t : x.id = user_id
    THEN CHOOSE x \in t : x.id = user_id
    ELSE None

\* ------------------------------------------------ routers/user.py register

\* if existing_user: raise HTTPException(400)
user_exists_ignored(existing_user) == FALSE
user_exists(existing_user) == existing_user # None

\* user = await users.create_user(...) is followed by create_token only when
\* it returned: an exception it raises leaves the handler
after_create_user_swallowed(created) == "t_select"
after_create_user_retried(created) == IF created THEN "t_select" ELSE "r_check"
after_create_user(created) == IF created THEN "t_select" ELSE "exit_err"

StartRegister(r, username) ==
    /\ r \in UserReqs
    /\ pc[r] = "idle"
    /\ pc' = [pc EXCEPT ![r] = "r_check"]
    /\ sess' = [sess EXCEPT ![r] = "open"]
    /\ reg' = [reg EXCEPT ![r].kind = "register", ![r].username = username]
    /\ UNCHANGED <<news, users, tokens, nextUserId, nextTokenId, nextUuid, now,
                   dirtyNews, dirtyTok, resp, detail, lst, rel, cat,
                   closed>>

\* existing_user = await users.get_user_by_username(db, username); 400 if found
RegCheck(r) ==
    /\ pc[r] = "r_check"
    /\ LET eu == get_user_by_username(users, reg[r].username) IN
        /\ reg' = [reg EXCEPT ![r].existing_user = eu]
        /\ IF user_exists(eu)
           THEN /\ resp' = [resp EXCEPT ![r] = 400]
                /\ pc' = [pc EXCEPT ![r] = "exit_err"]
           ELSE /\ resp' = resp
                /\ pc' = [pc EXCEPT ![r] = "r_create"]
    /\ UNCHANGED <<news, users, tokens, nextUserId, nextTokenId, nextUuid, now,
                   sess, dirtyNews, dirtyTok, detail, lst, rel, cat,
                   closed>>

\* create_user: db.add(user); await db.commit(); await db.refresh(user).
\* The INSERT either stores the row under the next auto-increment id, or is
\* refused by the unique index (the refused INSERT may have used up an id).
RegCreate(r) ==
    /\ pc[r] = "r_create"
    /\ IF UsernameFree(users, reg[r].username)
       THEN /\ users' = users \cup {[id |-> nextUserId, username |-> reg[r].username]}
            /\ nextUserId' = nextUserId + 1
            /\ reg' = [reg EXCEPT ![r].user_id = nextUserId, ![r].created = TRUE]
            /\ pc' = [pc EXCEPT ![r] = after_create_user(TRUE)]
            /\ resp' = resp
       ELSE /\ users' = users
            /\ \E used \in {0, 1} : nextUserId' = nextUserId + used
            /\ reg' = reg
            /\ pc' = [pc EXCEPT ![r] = after_create_user(FALSE)]
            /\ resp' = IF after_create_user(FALSE) = "exit_err"
                       THEN [resp EXCEPT ![r] = 500] ELSE resp
    /\ UNCHANGED <<news, tokens, nextTokenId, nextUuid, now, sess, dirtyNews,
                   dirtyTok, detail, lst, rel, cat,
                   closed>>

\* a direct call of create_token(db, user_id) for a stored user
StartIssue(r, user_id) ==
    /\ r \in UserReqs
    /\ pc[r] = "idle"
    /\ \E x \in users : x.id = user_id
    /\ pc' = [pc EXCEPT ![r] = "t_select"]
    /\ sess' = [sess EXCEPT ![r] = "open"]
    /\ reg' = [reg EXCEPT ![r].kind = "issue", ![r].user_id = user_id]
    /\ UNCHANGED <<news, users, tokens, nextUserId, nextTokenId, nextUuid, now,
                   dirtyNews, dirtyTok, resp, detail, lst, rel, cat,
                   closed>>

\* create_token: token = str(uuid.uuid4()); expires_at = now + 7 days;
\* user_token = select ... scalar_one_or_none(); when a row is found its
\* token and expires_at are overwritten in the session and the function
\* returns (the change is flushed when get_db commits)
TokSelect(r) ==
    /\ pc[r] = "t_select"
    /\ \E passed \in {0, 1} : now' = now + passed
    /\ nextUuid' = nextUuid + 1
    /\ LET token == nextUuid'
           expires_at == now' + TokenDays
           user_token == find_user_token(tokens, reg[r].user_id)
       IN IF user_token # None
          THEN /\ dirtyTok' = [dirtyTok EXCEPT ![r] =
                      {[id |-> user_token.id, token |-> token, expires_at |-> expires_at]}]
               /\ reg' = [reg EXCEPT ![r].token = token,
                                     ![r].expires_at = expires_at,
                                     ![r].row = [user_token EXCEPT
                                                   !.token = token,
                                                   !.expires_at = expires_at]]
               /\ resp' = [resp EXCEPT ![r] = 200]
               /\ pc' = [pc EXCEPT ![r] = "exit_ok"]
          ELSE /\ dirtyTok' = dirtyTok
               /\ reg' = [reg EXCEPT ![r].token = token, ![r].expires_at = expires_at]
               /\ resp' = resp
               /\ pc' = [pc EXCEPT ![r] = "t_insert"]
    /\ UNCHANGED <<news, users, tokens, nextUserId, nextTokenId, sess, dirtyNews,
                   detail, lst, rel, cat,
                   closed>>

\* create_token, no row found: db.add(UserToken(user_id, token, expires_at));
\* await db.commit(); return user_token
TokInsert(r) ==
    /\ pc[r] = "t_insert"
    /\ LET row == [id |-> nextTokenId, user_id |-> reg[r].user_id,
                   token |-> reg[r].token, expires_at |-> reg[r].expires_at]
       IN /\ tokens' = tokens \cup {row}
          /\ reg' = [reg EXCEPT ![r].row = row]
    /\ nextTokenId' = nextTokenId + 1
    /\ resp' = [resp EXCEPT ![r] = 200]
    /\ pc' = [pc EXCEPT ![r] = "exit_ok"]
    /\ UNCHANGED <<news, users, nextUserId, nextUuid, now, sess, dirtyNews,
                   dirtyTok, detail, lst, rel, cat,
                   closed>>

\* a statement of create_token fails in the storage: the exception reaches get_db
TokFails(r) ==
    /\ pc[r] \in {"t_select", "t_insert"}
    /\ resp' = [resp EXCEPT ![r] = 500]
    /\ pc' = [pc EXCEPT ![r] = "exit_err"]
    /\ UNCHANGED <<news, users, tokens, nextUserId, nextTokenId, nextUuid, now,
                   sess, dirtyNews, dirtyTok, detail, lst, reg, rel, cat,
                   closed>>

NextUser ==
    \/ \E r \in UserReqs, u \in Usernames : StartRegister(r, u)
    \/ \E r \in UserReqs : RegCheck(r)
    \/ \E r \in UserReqs : RegCreate(r)
    \/ \E r \in UserReqs, id \in 1..MaxUserReqs : StartIssue(r, id)
    \/ \E r \in UserReqs : TokSelect(r)
    \/ \E r \in UserReqs : TokInsert(r)
    \/ \E r \in UserReqs : TokFails(r)
    \/ \E r \in UserReqs : GetDbExit(r)

SpecUser == Init /\ [][NextUser]_vars

\* the requests the router accepts: create_token is called by register only
NextRegister ==
    \/ \E r \in UserReqs, u \in Usernames : StartRegister(r, u)
    \/ \E r \in UserReqs : RegCheck(r)
    \/ \E r \in UserReqs : RegCreate(r)
    \/ \E r \in UserReqs : TokSelect(r)
    \/ \E r \in UserReqs : TokInsert(r)
    \/ \E r \in UserReqs : TokFails(r)
    \/ \E r \in UserReqs : GetDbExit(r)

SpecRegister == Init /\ [][NextRegister]_vars

\* the steps register request r takes after its session was opened
RegisterStep(r) ==
    \/ RegCheck(r)
    \/ RegCreate(r)
    \/ TokSelect(r)
    \/ TokInsert(r)
    \/ TokFails(r)
    \/ GetDbExit(r)

\* the event loop resumes every register coroutine whose await can complete
SpecRegisterFair == SpecRegister /\ \A r \in UserReqs : WF_vars(RegisterStep(r))

\* ----------------------------------------------------------- claims: users

\* the user_token rows of a user
C2_RowsOf(user_id) == {t \in tokens : t.user_id = user_id}

\* the token values create_token has generated in calls for a user
C2_IssuedTo(user_id) ==
    {reg[r].token : r \in {q \in UserReqs : reg[q].user_id = user_id /\ reg[q].token # 0}}

\* C2: there is at most one user_token row per user; once a create_token
\* call for a user has returned and its session has committed, exactly one
\* row of that user exists and it holds a token issued for that user (the
\* call's own token when it is the only call for that user); two calls never
\* return the same token value.
C2_OneTokenRowPerUser ==
    /\ \A u \in users : Cardinality(C2_RowsOf(u.id)) <= 1
    /\ \A r \in UserReqs :
          (pc[r] = "done" /\ resp[r] = 200)
          => /\ Cardinality(C2_RowsOf(reg[r].user_id)) = 1
             /\ \A t \in C2_RowsOf(reg[r].user_id) : t.token \in C2_IssuedTo(reg[r].user_id)
             /\ (\A q \in UserReqs \ {r} : reg[q].user_id # reg[r].user_id)
                   => \A t \in C2_RowsOf(reg[r].user_id) : t.token = reg[r].token
    /\ \A q, r \in UserReqs :
          (q # r /\ resp[q] = 200 /\ resp[r] = 200) => reg[q].token # reg[r].token

\* C3: a register request whose username already has a user row answers 400
\* and changes nothing in the storage, at the check and at the session's
\* exit; it creates no user and is handed no token.
C3_DuplicateStep(r) ==
    /\ (pc[r] = "r_check" /\ pc'[r] # "r_check"
            /\ \E x \in users : x.username = reg[r].username)
          => /\ resp'[r] = 400
             /\ pc'[r] = "exit_err"
             /\ storage' = storage
    /\ (resp[r] = 400 /\ pc'[r] # pc[r])
          => /\ storage' = storage
             /\ resp'[r] = 400
             /\ pc'[r] = "done"
             /\ sess'[r] = "rolledback"
    /\ resp'[r] = 400
          => /\ ~reg'[r].created
             /\ reg'[r].row = None
             /\ reg'[r].token = 0
             /\ Cardinality({x \in users' : x.username = reg'[r].username}) = 1

C3_DuplicateRejected == [][\A r \in UserReqs : C3_DuplicateStep(r)]_vars

\* a register request for a stored username has ended with 400
C3_Witness ==
    \E r \in UserReqs :
        /\ reg[r].kind = "register"
        /\ pc[r] = "done"
        /\ resp[r] = 400
        /\ \E x \in users : x.username = reg[r].username /\ x.id # reg[r].user_id

\* the register requests that created the user row of a username
C4_Creators(username) ==
    {r \in UserReqs : reg[r].kind = "register" /\ reg[r].username = username
                      /\ reg[r].created}

\* C4: no two user rows share a username, whatever the interleaving of the
\* register requests; at most one request per username creates the user, and
\* a register request that did not create it ends with 400 or 500 and is
\* handed no token.
C4_UniqueUsername ==
    /\ \A x, y \in users : (x.username = y.username \/ x.id = y.id) => x = y
    /\ \A u \in Usernames : Cardinality(C4_Creators(u)) <= 1
    /\ \A r \in UserReqs :
          (reg[r].kind = "register" /\ ~reg[r].created)
          => /\ reg[r].row = None
             /\ reg[r].token = 0
             /\ resp[r] \in {0, 400, 500}
             /\ pc[r] = "done" => resp[r] \in {400, 500}

\* two requests for one username both passed the check; one created the
\* user, the other was refused by the storage
C4_Witness ==
    \E q, r \in UserReqs :
        /\ q # r
        /\ reg[q].kind = "register" /\ reg[r].kind = "register"
        /\ reg[q].username = reg[r].username
        /\ reg[q].created
        /\ ~reg[r].created
        /\ reg[r].existing_user = None
        /\ pc[r] = "done"
        /\ resp[r] = 500

\* ------------------------------------------- routers/news.py get_categories

\* the values a caller may send for skip and limit (neither is validated)
SkipInputs == (0 - 1)..MaxPageSize
CategoryLimitInputs == ((0 - 1)..MaxPageSize) \cup {CategoriesLimitDefault}

\* select(Category).offset(skip).limit(limit): every result the storage can
\* return (the select has no ORDER BY)
get_categories(skip, limit) ==
    {Window(s, skip, limit) : s \in Orderings(<<>>, Cats, FALSE)}

StartCategories(r, skip, limit) ==
    /\ r \in CatReqs
    /\ pc[r] = "idle"
    /\ pc' = [pc EXCEPT ![r] = "c_fetch"]
    /\ sess' = [sess EXCEPT ![r] = "open"]
    /\ cat' = [cat EXCEPT ![r].skip = skip, ![r].limit = limit]
    /\ UNCHANGED <<news, users, tokens, nextUserId, nextTokenId, nextUuid, now,
                   dirtyNews, dirtyTok, resp, detail, lst, reg, rel, closed>>

\* categories = await news.get_categories(db, skip, limit); return.  The
\* storage refuses a negative OFFSET or LIMIT with an error.
CategoriesFetch(r) ==
    /\ pc[r] = "c_fetch"
    /\ IF cat[r].skip < 0 \/ cat[r].limit < 0
       THEN /\ cat' = [cat EXCEPT ![r].queried = TRUE]
            /\ resp' = [resp EXCEPT ![r] = 500]
            /\ pc' = [pc EXCEPT ![r] = "exit_err"]
       ELSE /\ \E s \in get_categories(cat[r].skip, cat[r].limit) :
                  cat' = [cat EXCEPT ![r].queried = TRUE, ![r].categories = s]
            /\ resp' = [resp EXCEPT ![r] = 200]
            /\ pc' = [pc EXCEPT ![r] = "exit_ok"]
    /\ UNCHANGED <<news, users, tokens, nextUserId, nextTokenId, nextUuid, now,
                   sess, dirtyNews, dirtyTok, detail, lst, reg, rel, closed>>

\* ------------------------------------------------------------ all routes

\* the requests of the four routes, interleaved at their awaits
NextAll ==
    \/ \E r \in CatReqs, k \in SkipInputs, l \in CategoryLimitInputs :
          StartCategories(r, k, l)
    \/ \E r \in CatReqs : CategoriesFetch(r)
    \/ \E r \in ListReqs, c \in Cats, p \in PageInputs, ps \in PageSizeInputs :
          StartList(r, c, p, ps)
    \/ \E r \in ListReqs : ListFetch(r)
    \/ \E r \in ListReqs : ListCount(r)
    \/ \E r \in DetailReqs, id \in 0..MaxNews : StartDetail(r, id)
    \/ \E r \in DetailReqs : DetailLookup(r)
    \/ \E r \in DetailReqs : DetailUpdate(r)
    \/ \E r \in DetailReqs : DetailCommit(r)
    \/ \E r \in DetailReqs : DetailRelated(r)
    \/ \E r \in DetailReqs : DetailRelatedFails(r)
    \/ \E r \in UserReqs, u \in Usernames : StartRegister(r, u)
    \/ \E r \in UserReqs : RegCheck(r)
    \/ \E r \in UserReqs : RegCreate(r)
    \/ \E r \in UserReqs : TokSelect(r)
    \/ \E r \in UserReqs : TokInsert(r)
    \/ \E r \in UserReqs : TokFails(r)
    \/ \E r \in Reqs : GetDbExit(r)

SpecAll == Init /\ [][NextAll]_vars

\* the steps request r takes after its session was opened
RequestStep(r) ==
    \/ CategoriesFetch(r)
    \/ ListFetch(r)
    \/ ListCount(r)
    \/ DetailLookup(r)
    \/ DetailUpdate(r)
    \/ DetailCommit(r)
    \/ DetailRelated(r)
    \/ DetailRelatedFails(r)
    \/ RegCheck(r)
    \/ RegCreate(r)
    \/ TokSelect(r)
    \/ TokInsert(r)
    \/ TokFails(r)
    \/ GetDbExit(r)

\* the event loop resumes every coroutine whose await can complete; a row
\* lock is released when its holder commits
SpecAllFair == SpecAll /\ \A r \in Reqs : WF_vars(RequestStep(r))

\* ------------------------------------------------------ claims: all routes

\* C12: under every interleaving of get_categories, get_news_list,
\* get_news_detail and register requests, each article's views is never
\* negative and no step lowers it.
C12_ViewsStep ==
    /\ DOMAIN news' = DOMAIN news
    /\ \A a \in DOMAIN news :
          /\ news'[a].views >= news[a].views
          /\ news[a].views >= 0
          /\ news'[a].views >= 0

C12_ViewsMonotone == [][C12_ViewsStep]_vars

\* views have grown while requests of the other routes were in flight or done
C12_Witness ==
    /\ \E a \in DOMAIN news : news[a].views >= 1
    /\ \E r \in Reqs : reg[r].kind = "register" /\ pc[r] \notin {"idle", "done"}

\* outcome of a finished request: committed after a normal return, rolled
\* back with the error kept after a raise, and closed either way
C13_ExitPaths ==
    \A r \in Reqs :
       /\ closed[r] => sess[r] \in {"committed", "rolledback"}
       /\ pc[r] = "done" =>
             /\ closed[r]
             /\ resp[r] = 200 => sess[r] = "committed"
             /\ resp[r] # 200 => sess[r] = "rolledback" /\ resp[r] >= 400

\* C13: every session opened for a request is eventually closed: committed
\* then closed when the handler returns normally; rolled back, the exception
\* re-raised, and closed when the handler raises; no request ends with its
\* session open.
C13_SessionClosed ==
    /\ []C13_ExitPaths
    /\ \A r \in Reqs : (sess[r] = "open") ~> closed[r]

\* one request ended by commit and another by a 404 rollback, both closed
C13_Witness ==
    \E r, q \in Reqs :
       /\ pc[r] = "done" /\ resp[r] = 200 /\ sess[r] = "committed" /\ closed[r]
       /\ pc[q] = "done" /\ resp[q] = 404 /\ sess[q] = "rolledback" /\ closed[q]

\* ------------------------------------------ claims: register, two writes

\* register requests whose create_user committed and whose create_token raised
C14_Orphaned(r) ==
    /\ r \in UserReqs
    /\ reg[r].kind = "register"
    /\ reg[r].created
    /\ resp[r] = 500

\* the user row of such a request stays, before and after the rollback of
\* get_db, and no token row refers to it
C14_UserKept ==
    \A r \in UserReqs :
       C14_Orphaned(r) =>
          /\ \E x \in users : x.id = reg[r].user_id /\ x.username = reg[r].username
          /\ \A y \in tokens : y.user_id # reg[r].user_id

\* a register that checks the username of such a finished request gets 400
\* and writes nothing
C14_LaterRegisterStep ==
    \A q \in UserReqs :
       ( /\ pc[q] = "r_check"
         /\ pc'[q] # "r_check"
         /\ \E r \in UserReqs : /\ C14_Orphaned(r)
                                /\ pc[r] = "done"
                                /\ reg[r].username = reg[q].username )
       => /\ resp'[q] = 400
          /\ pc'[q] = "exit_err"
          /\ users' = users
          /\ tokens' = tokens

\* C14: registration is not atomic: when token issuance fails after
\* create_user committed, the user row persists with no token row for it, no
\* compensating action removes it, and a later register with the same
\* username fails with 400 (user already exists).
C14_NotAtomic == []C14_UserKept /\ [][C14_LaterRegisterStep]_vars

\* a register ended with its user stored and no token, and a later register
\* of the same username was refused
C14_Witness ==
    \E r, q \in UserReqs :
       /\ r # q
       /\ C14_Orphaned(r) /\ pc[r] = "done" /\ sess[r] = "rolledback"
       /\ reg[q].username = reg[r].username
       /\ reg[q].existing_user # None
       /\ reg[q].existing_user.id = reg[r].user_id
       /\ resp[q] = 400 /\ pc[q] = "done"

\* the token rows a create_token call for user_id may leave as they are:
\* every row of another user
C15_OtherRows(user_id) == {y \in tokens : y.user_id # user_id}

\* the step in which the session of r's create_token call is committed keeps
\* every row of another user, and the call holds no pending change to one
C15_FrameStep ==
    \A r \in UserReqs :
       /\ \A d \in dirtyTok'[r] :
             \A y \in tokens' : y.id = d.id => y.user_id = reg'[r].user_id
       /\ (pc[r] = "exit_ok" /\ pc'[r] = "done")
             => \A y \in C15_OtherRows(reg[r].user_id) : y \in tokens'

\* C15: create_token(user_id) never selects for update or modifies a token
\* row of another user: in every interleaving of registrations the token and
\* expires_at of every other user's row are unchanged by the call.
C15_OtherUsersUntouched == [][C15_FrameStep]_vars

\* C16: a register that succeeds for its newly created user u returns a
\* token row with user_id = u, and once its session has committed the
\* storage holds a row with user_id = u and the returned token.
C16_ReturnedTokenStored ==
    \A r \in UserReqs :
       (reg[r].kind = "register" /\ reg[r].created /\ resp[r] = 200)
       => /\ reg[r].row # None
          /\ reg[r].row.user_id = reg[r].user_id
          /\ reg[r].row.token = reg[r].token
          /\ (pc[r] = "done" /\ sess[r] = "committed")
                => \E y \in tokens : /\ y.user_id = reg[r].user_id
                                     /\ y.token = reg[r].token

\* ----------------------------------------- claims: register state machine

\* the moves of one register request: Start -> CheckUsername, then Exists ->
\* Fail or Absent -> CreateUser -> IssueToken -> Success; a raise in
\* CreateUser or IssueToken also ends in Fail; the exits end the request
C17_Edges ==
    {<<"idle", "r_check">>,
     <<"r_check", "exit_err">>, <<"r_check", "r_create">>,
     <<"r_create", "t_select">>, <<"r_create", "exit_err">>,
     <<"t_select", "t_insert">>, <<"t_select", "exit_ok">>, <<"t_select", "exit_err">>,
     <<"t_insert", "exit_ok">>, <<"t_insert", "exit_err">>,
     <<"exit_ok", "done">>, <<"exit_err", "done">>}

\* every move is an edge; the check decides between Fail and CreateUser; a
\* user row is added only by a request in CreateUser whose check found none
C17_Step ==
    /\ \A r \in UserReqs :
          pc'[r] # pc[r] =>
             /\ <<pc[r], pc'[r]>> \in C17_Edges
             /\ pc[r] = "r_check" =>
                   (pc'[r] = "exit_err" <=> reg'[r].existing_user # None)
    /\ users' # users =>
          \E r \in UserReqs : /\ pc[r] = "r_create"
                              /\ reg[r].existing_user = None
                              /\ ~reg[r].created /\ reg'[r].created
                              /\ users' = users \cup {[id |-> reg'[r].user_id,
                                                       username |-> reg[r].username]}

\* no user created after a positive check, no token work before the
\* request's own user row is stored, and a finished request is in exactly one
\* of Success (200, user and token row) and Fail (400 or 500, rolled back)
C17_Stages ==
    \A r \in UserReqs :
       /\ reg[r].created => reg[r].existing_user = None
       /\ (pc[r] \in {"t_select", "t_insert", "exit_ok"} \/ reg[r].token # 0)
             => /\ reg[r].created
                /\ \E x \in users : /\ x.id = reg[r].user_id
                                    /\ x.username = reg[r].username
       /\ pc[r] = "done" =>
             \/ /\ resp[r] = 200
                /\ reg[r].created /\ reg[r].row # None
                /\ sess[r] = "committed"
             \/ /\ resp[r] \in {400, 500}
                /\ resp[r] = 400 <=> reg[r].existing_user # None
                /\ reg[r].row = None
                /\ sess[r] = "rolledback"

\* C17: every register request follows Start -> CheckUsername -> (Exists ->
\* Fail | Absent -> CreateUser -> IssueToken -> Success) as a single attempt:
\* no user is created when the check found one, no token is issued before its
\* own user creation committed, no step is retried, and the request always
\* terminates in exactly one of Fail or Success.
C17_RegisterMachine ==
    /\ []C17_Stages
    /\ [][C17_Step]_vars
    /\ \A r \in UserReqs : (pc[r] = "r_check") ~> (pc[r] = "done")

\* one register ended in Success and another, refused at the check, in Fail
C17_Witness ==
    \E r, q \in UserReqs :
       /\ pc[r] = "done" /\ resp[r] = 200 /\ reg[r].created /\ reg[r].row # None
       /\ pc[q] = "done" /\ resp[q] = 400 /\ ~reg[q].created

====
